---- MODULE Spec2Model ----
(***************************************************************************)
(* Model of scripts/build_kg.py: the knowledge-graph builder.              *)
(*                                                                         *)
(* A text is a sequence of tokens.  A token is either a word (a maximal    *)
(* run of word characters) or the whitespace token "\n"; two adjacent      *)
(* tokens are separated by one blank.  A Python string made of words and   *)
(* whitespace is therefore one token sequence and conversely, and an       *)
(* entity phrase (a substring of the text) is a token sequence too.        *)
(***************************************************************************)
EXTENDS Integers, Sequences, FiniteSets, TLC

(***************************************************************************)
(* Bound of the exhaustively enumerated inputs.                            *)
(***************************************************************************)
MaxTextLen == 3

(***************************************************************************)
(* Characters of the words used: what the regular expressions and          *)
(* str.lower() see of a token.                                             *)
(***************************************************************************)
Space == "\n"

IsSpace(tok) == tok = Space

\* str.lower() on one token (line 59)
lower(tok) ==
    CASE tok = "Acme" -> "acme"
      [] tok = "Corp" -> "corp"
      [] tok = "Inc" -> "inc"
      [] tok = "Globex" -> "globex"
      [] tok = "The" -> "the"
      [] tok = "Project" -> "project"
      [] tok = "Ab" -> "ab"
      [] tok = "Route66" -> "route66"
      [] OTHER -> tok

\* len() of one token
WordLen(tok) ==
    CASE lower(tok) \in {Space} -> 1
      [] lower(tok) \in {"ab"} -> 2
      [] lower(tok) \in {"and", "for", "inc", "the"} -> 3
      [] lower(tok) \in {"acme", "corp"} -> 4
      [] lower(tok) \in {"alpha", "bravo", "delta", "hotel", "india", "oscar",
                         "romeo", "cloud"} -> 5
      [] lower(tok) \in {"globex", "juliet", "quebec"} -> 6
      [] lower(tok) \in {"charlie", "foxtrot", "project", "route66"} -> 7
      [] lower(tok) \in {"migration"} -> 9
      [] lower(tok) \in {"partnership"} -> 11
      [] lower(tok) \in {"requirements"} -> 12

\* the token matches [A-Z][a-zA-Z0-9]+ between word boundaries (line 52)
IsCapWord(tok) ==
    tok \in {"Acme", "Corp", "Inc", "Globex", "The", "Project", "Ab", "Route66"}

\* the token consists of letters only: it can match [a-zA-Z]{5,} (line 59)
IsLetters(tok) == ~IsSpace(tok) /\ lower(tok) # "route66"

\* len() of a string given as its token sequence: the tokens and the blanks
\* between them
RECURSIVE StrLen(_)
StrLen(s) ==
    IF s = <<>> THEN 0
    ELSE IF Len(s) = 1 THEN WordLen(s[1])
    ELSE WordLen(s[1]) + 1 + StrLen(Tail(s))

\* str.strip(): leading and trailing whitespace removed (lines 55, 83)
RECURSIVE LStrip(_)
LStrip(s) == IF s # <<>> /\ IsSpace(s[1]) THEN LStrip(Tail(s)) ELSE s

RECURSIVE RStrip(_)
RStrip(s) ==
    IF s # <<>> /\ IsSpace(s[Len(s)]) THEN RStrip(SubSeq(s, 1, Len(s) - 1)) ELSE s

\* variant: the text tested and kept as it is
stripNothing(s) == s

strip(s) == RStrip(LStrip(s))

(***************************************************************************)
(* collections.Counter: the keys in insertion order with their counts.     *)
(***************************************************************************)
CounterHas(c, k) == \E i \in 1..Len(c) : c[i].k = k

CounterGet(c, k) ==
    IF CounterHas(c, k) THEN (c[CHOOSE i \in 1..Len(c) : c[i].k = k]).n ELSE 0

\* variant: every occurrence appended as an entry of its own
CounterAddAppend(c, k, n) == Append(c, [k |-> k, n |-> n])

CounterAdd(c, k, n) ==
    IF CounterHas(c, k)
    THEN [i \in 1..Len(c) |-> IF c[i].k = k THEN [k |-> k, n |-> c[i].n + n] ELSE c[i]]
    ELSE Append(c, [k |-> k, n |-> n])

\* Counter(iterable): one occurrence counted per element
RECURSIVE CounterFrom(_, _)
CounterFrom(c, s) ==
    IF s = <<>> THEN c ELSE CounterFrom(CounterAdd(c, s[1], 1), Tail(s))

Counter(s) == CounterFrom(<<>>, s)

\* Counter.update(other Counter): the counts of other added
RECURSIVE CounterUpdate(_, _)
CounterUpdate(c, d) ==
    IF d = <<>> THEN c ELSE CounterUpdate(CounterAdd(c, d[1].k, d[1].n), Tail(d))

\* Counter.most_common(n): sorted by count, descending, stable, first n
RemoveAt(s, i) == SubSeq(s, 1, i - 1) \o SubSeq(s, i + 1, Len(s))

FirstMax(c) ==
    CHOOSE i \in 1..Len(c) :
        /\ \A j \in 1..Len(c) : c[j].n <= c[i].n
        /\ \A j \in 1..(i - 1) : c[j].n < c[i].n

RECURSIVE most_common(_, _)
most_common(c, n) ==
    IF n = 0 \/ c = <<>> THEN <<>>
    ELSE <<c[FirstMax(c)]>> \o most_common(RemoveAt(c, FirstMax(c)), n - 1)

(***************************************************************************)
(* find_entities (lines 50-56)                                             *)
(***************************************************************************)
EntityStop ==
    {<<"The">>, <<"This">>, <<"That">>, <<"And">>, <<"For">>, <<"With">>,
     <<"From">>, <<"Project">>, <<"Customer">>}

\* first index after i that holds a word, or 0
RECURSIVE NextWord(_, _)
NextWord(text, i) ==
    IF i + 1 > Len(text) THEN 0
    ELSE IF IsSpace(text[i + 1]) THEN NextWord(text, i + 1)
    ELSE i + 1

\* last index of the greedy match (?:\s+[A-Z][a-zA-Z0-9]+)* that starts at i
RECURSIVE MatchEnd(_, _)
MatchEnd(text, i) ==
    LET k == NextWord(text, i)
    IN  IF k # 0 /\ IsCapWord(text[k]) THEN MatchEnd(text, k) ELSE i

\* re.findall: the non-overlapping matches, left to right
RECURSIVE EntityCandidates(_, _)
EntityCandidates(text, i) ==
    IF i > Len(text) THEN <<>>
    ELSE IF IsCapWord(text[i])
         THEN <<SubSeq(text, i, MatchEnd(text, i))>>
              \o EntityCandidates(text, MatchEnd(text, i) + 1)
         ELSE EntityCandidates(text, i + 1)

KeepEntity(c) == c \notin EntityStop /\ StrLen(c) > 2

find_entities(text) ==
    LET kept == SelectSeq(EntityCandidates(text, 1), KeepEntity)
    IN  [i \in 1..Len(kept) |-> strip(kept[i])]

(***************************************************************************)
(* find_topics (lines 58-63)                                               *)
(***************************************************************************)
top_n == 10

TopicStop ==
    {"project", "requirements", "system", "solution", "cloud", "customer", "service"}

IsLongWord(w) == IsLetters(w) /\ WordLen(w) >= 5

NotTopicStop(w) == w \notin TopicStop

\* text.lower() then re.findall, then the stop words removed (lines 59-61)
TopicWords(text) ==
    LET low == [i \in 1..Len(text) |-> lower(text[i])]
    IN  SelectSeq(SelectSeq(low, IsLongWord), NotTopicStop)

\* variant: the words returned as they occur, not ranked and made distinct
find_topics_all(text) == TopicWords(text)

find_topics(text) ==
    LET ranked == most_common(Counter(TopicWords(text)), top_n)
    IN  [i \in 1..Len(ranked) |-> ranked[i].k]

(***************************************************************************)
(* The source tree.  A path is a directory and a file name; a file name is *)
(* a stem and an extension (os.path.splitext).                             *)
(***************************************************************************)
SOURCE_DIR == "./source"

\* the directories in the order os.walk yields them (top-down)
Dirs == <<SOURCE_DIR, "./source/sub">>

FileName(stem, ext) == [stem |-> stem, ext |-> ext]

\* os.path.join(root, f) (line 81)
Join(root, f) == [dir |-> root, f |-> f]

\* os.path.splitext(path)[1].lower() (line 14)
ExtLower(path) ==
    CASE path.f.ext = ".PDF" -> ".pdf"
      [] path.f.ext = ".TXT" -> ".txt"
      [] OTHER -> path.f.ext

\* the words of the exhaustively enumerated texts
Vocab == {"Acme", "migration", Space}

RECURSIVE SeqsUpTo(_, _)
SeqsUpTo(S, n) ==
    IF n = 0 THEN {<<>>}
    ELSE LET shorter == SeqsUpTo(S, n - 1)
         IN  shorter \cup {Append(s, x) : s \in shorter, x \in S}

\* the two files of the end-to-end scenario
TextA == <<"Acme", "Corp", "requirements", "for", "Acme", "Corp", "cloud", "migration">>
TextB == <<"Acme", "Corp", "and", "Globex", "Inc", "partnership">>
\* three distinct entities, no topic
TextThree == <<"Acme", "and", "Corp", "and", "Route66">>
\* text that is not blank and has neither an entity nor a topic
TextPlain == <<"The", "and", "Project", "and", "Ab", "cloud">>
\* more than top_n distinct topic words, the last one the most frequent
TextLong ==
    <<"alpha", "bravo", "charlie", "delta", "foxtrot", "hotel", "india", "juliet",
      "oscar", "quebec", "romeo", "romeo">>

PathA == Join(SOURCE_DIR, FileName("a", ".txt"))
PathSubA == Join(Dirs[2], FileName("a", ".txt"))

\* what a file holds: its text, and whether reading or parsing it succeeds
FileOf(content, readable) == [content |-> content, readable |-> readable]

\* the third file of the tree: its name, and what it holds
ThirdFiles ==
    {<<FileName("b", ".txt"), FileOf(TextB, TRUE)>>,
     <<FileName("b", ".txt"), FileOf(TextLong, TRUE)>>,
     <<FileName("b", ".PDF"), FileOf(TextB, TRUE)>>,
     <<FileName("b", ".PDF"), FileOf(TextB, FALSE)>>,
     <<FileName("run", ".exe"), FileOf(TextB, TRUE)>>}

\* the trees the run may find under SOURCE_DIR
Trees ==
    {[p \in {PathA, PathSubA, Join(SOURCE_DIR, third[1])} |->
         IF p = PathA THEN FileOf(ta, TRUE)
         ELSE IF p = PathSubA THEN FileOf(ts, TRUE)
         ELSE third[2]] :
       ta \in SeqsUpTo(Vocab, MaxTextLen) \cup {TextA, TextThree},
       ts \in {TextA, TextB, TextPlain, <<>>},
       third \in ThirdFiles}

VARIABLES
    fs,                    \* the source tree: path -> what the file holds
    walked,                \* the paths os.walk has yielded so far
    nodes,                 \* nodes["file"], nodes["entity"], nodes["topic"]
    edges,
    entity_global_counts,
    topic_global_counts,
    file_texts,
    pc,                    \* position of the script
    file_id,               \* loop variables of the two passes
    entity_counts,
    topic_counts,
    entities,
    topics,
    fpos,                  \* position of pass 2 in file_texts.items()
    i,
    j,
    graph,                 \* what graph.json holds
    gv_lines,              \* what graph.gv holds
    summary                \* what graph.md holds

vars ==
    <<fs, walked, nodes, edges, entity_global_counts, topic_global_counts,
      file_texts, pc, file_id, entity_counts, topic_counts, entities, topics,
      fpos, i, j, graph, gv_lines, summary>>

(***************************************************************************)
(* extract_text (lines 13-48): the text of the file, "" for an extension   *)
(* that is not supported and for a file that cannot be read or parsed.     *)
(***************************************************************************)
extract_text(path) ==
    IF ExtLower(path) \in {".txt", ".md", ".csv", ".json"}
    THEN IF fs[path].readable THEN fs[path].content ELSE <<>>
    ELSE IF ExtLower(path) \in {".docx", ".pdf", ".pptx"}
    THEN IF fs[path].readable THEN fs[path].content ELSE <<>>
    ELSE <<>>

\* variant: no file is skipped
IsBlankNever(text) == FALSE

\* not text.strip() (line 83)
IsBlank(text) == strip(text) = <<>>

(***************************************************************************)
(* dict: the keys in insertion order with their values                     *)
(***************************************************************************)
\* variant: the membership test never succeeds
DictHasNever(d, id) == FALSE

DictHas(d, id) == \E k \in 1..Len(d) : d[k].id = id

\* d[id] = rec
DictPut(d, id, rec) ==
    IF DictHas(d, id)
    THEN [k \in 1..Len(d) |-> IF d[k].id = id THEN rec ELSE d[k]]
    ELSE Append(d, rec)

\* variants: the node is never created; the node is created at every mention
DictSetDefaultNever(d, id, rec) == d

DictSetDefaultAlways(d, id, rec) == Append(d, rec)

\* if id not in d: d[id] = rec (lines 108-113, 124-129)
DictSetDefault(d, id, rec) == IF DictHas(d, id) THEN d ELSE Append(d, rec)

FileId(path) == <<"file", path>>
EntityId(e) == <<"entity", e>>
TopicId(t) == <<"topic", t>>

FileNode(path) ==
    [id |-> FileId(path), type |-> "file", name |-> path.f, path |-> path]
EntityNode(e) == [id |-> EntityId(e), type |-> "entity", name |-> e]
TopicNode(t) == [id |-> TopicId(t), type |-> "topic", name |-> t]

ContainsEdge(type, from, to, weight) ==
    [type |-> type, from |-> from, to |-> to, weight |-> weight]
RelatedEdge(type, from, to, file) ==
    [type |-> type, from |-> from, to |-> to, file |-> file]

Init ==
    /\ fs \in Trees
    /\ walked = {}
    /\ nodes = [file |-> <<>>, entity |-> <<>>, topic |-> <<>>]
    /\ edges = <<>>
    /\ entity_global_counts = <<>>
    /\ topic_global_counts = <<>>
    /\ file_texts = <<>>
    /\ pc = "walk"
    /\ file_id = <<>>
    /\ entity_counts = <<>>
    /\ topic_counts = <<>>
    /\ entities = <<>>
    /\ topics = <<>>
    /\ fpos = 1
    /\ i = 1
    /\ j = 1
    /\ graph = <<>>
    /\ gv_lines = <<>>
    /\ summary = <<>>

(***************************************************************************)
(* Pass 1 (lines 78-135)                                                   *)
(***************************************************************************)
Unwalked(d) == {p \in DOMAIN fs : p.dir = d /\ p \notin walked}

\* os.walk has yielded every file
WalkDone == \A p \in DOMAIN fs : p \in walked

\* the files the walk may yield next: those of the first directory that has
\* some left, in the order of os.listdir, which is arbitrary
ToWalk ==
    IF WalkDone THEN {}
    ELSE Unwalked(Dirs[CHOOSE k \in 1..Len(Dirs) :
                          /\ Unwalked(Dirs[k]) # {}
                          /\ \A m \in 1..(k - 1) : Unwalked(Dirs[m]) = {}])

\* variant: pass 2 entered from inside the walk loop
AfterEntitiesIntoPass2(tc) == IF tc # <<>> THEN "topics" ELSE "pass2"

\* where pass 1 goes after the entity loop, and after the file's body
AfterEntities(tc) == IF tc # <<>> THEN "topics" ELSE "walk"
AfterRegister(ec, tc) == IF ec # <<>> THEN "entities" ELSE AfterEntities(tc)

\* lines 81-84: the file yields no text, continue
SkipFile(p) ==
    /\ pc = "walk"
    /\ p \in ToWalk
    /\ IsBlank(extract_text(p))
    /\ walked' = walked \cup {p}
    /\ UNCHANGED <<fs, nodes, edges, entity_global_counts, topic_global_counts,
                   file_texts, pc, file_id, entity_counts, topic_counts,
                   entities, topics, fpos, i, j, graph, gv_lines, summary>>

\* lines 81-103: the file node, the text, the counts of the file, the globals
RegisterFile(p) ==
    /\ pc = "walk"
    /\ p \in ToWalk
    /\ ~IsBlank(extract_text(p))
    /\ LET text == extract_text(p)
           ec == Counter(find_entities(text))
           tc == Counter(find_topics(text))
       IN  /\ walked' = walked \cup {p}
           /\ file_id' = FileId(p)
           /\ nodes' = [nodes EXCEPT !.file = DictPut(@, FileId(p), FileNode(p))]
           /\ file_texts' = DictPut(file_texts, FileId(p),
                                    [id |-> FileId(p), text |-> text])
           /\ entity_counts' = ec
           /\ topic_counts' = tc
           /\ entity_global_counts' = CounterUpdate(entity_global_counts, ec)
           /\ topic_global_counts' = CounterUpdate(topic_global_counts, tc)
           /\ i' = 1
           /\ pc' = AfterRegister(ec, tc)
    /\ UNCHANGED <<fs, edges, entities, topics, fpos, j, graph, gv_lines, summary>>

\* lines 106-119: one iteration of the entity loop
AddEntityEdge ==
    /\ pc = "entities"
    /\ LET e == entity_counts[i].k
           count == entity_counts[i].n
       IN  /\ nodes' = [nodes EXCEPT
                          !.entity = DictSetDefault(@, EntityId(e), EntityNode(e))]
           /\ edges' = Append(edges, ContainsEdge("FILE_CONTAINS_ENTITY", file_id,
                                                  EntityId(e), count))
    /\ IF i < Len(entity_counts)
       THEN i' = i + 1 /\ pc' = pc
       ELSE i' = 1 /\ pc' = AfterEntities(topic_counts)
    /\ UNCHANGED <<fs, walked, entity_global_counts, topic_global_counts,
                   file_texts, file_id, entity_counts, topic_counts, entities,
                   topics, fpos, j, graph, gv_lines, summary>>

\* lines 122-135: one iteration of the topic loop
AddTopicEdge ==
    /\ pc = "topics"
    /\ LET t == topic_counts[i].k
           count == topic_counts[i].n
       IN  /\ nodes' = [nodes EXCEPT
                          !.topic = DictSetDefault(@, TopicId(t), TopicNode(t))]
           /\ edges' = Append(edges, ContainsEdge("FILE_CONTAINS_TOPIC", file_id,
                                                  TopicId(t), count))
    /\ IF i < Len(topic_counts)
       THEN i' = i + 1 /\ pc' = pc
       ELSE i' = 1 /\ pc' = "walk"
    /\ UNCHANGED <<fs, walked, entity_global_counts, topic_global_counts,
                   file_texts, file_id, entity_counts, topic_counts, entities,
                   topics, fpos, j, graph, gv_lines, summary>>

(***************************************************************************)
(* Pass 2 (lines 137-164)                                                  *)
(***************************************************************************)
SeqSet(s) == {s[k] : k \in 1..Len(s)}

\* list(a set): its elements once each, in the iteration order of the set,
\* which depends on the hashes of the strings: any order
RECURSIVE ListsOf(_)
ListsOf(S) ==
    IF S = {} THEN {<<>>}
    ELSE UNION {{<<x>> \o rest : rest \in ListsOf(S \ {x})} : x \in S}

\* variant: range(i, len(entities))
PairStartSelf(a) == a

\* range(i+1, len(entities)) starts here (line 144), indices from 1
PairStart(a) == a + 1

\* the first a >= from whose inner loop over PairStart(a)..n is not empty, or 0
RECURSIVE NextOuter(_, _)
NextOuter(from, n) ==
    IF from > n THEN 0
    ELSE IF PairStart(from) <= n THEN from
    ELSE NextOuter(from + 1, n)

\* the for loop of line 79 is exhausted: line 138
StartPass2 ==
    /\ pc = "walk"
    /\ WalkDone
    /\ pc' = "pass2"
    /\ fpos' = 1
    /\ UNCHANGED <<fs, walked, nodes, edges, entity_global_counts,
                   topic_global_counts, file_texts, file_id, entity_counts,
                   topic_counts, entities, topics, i, j, graph, gv_lines, summary>>

\* where pass 2 goes after the entity-entity loop
AfterPairs(es, ts) == IF es # <<>> /\ ts # <<>> THEN "et" ELSE "pass2"

\* lines 138-140: the next file, its distinct entities and topics as lists.
\* The order of topics shows only in the entity-topic loop: a file without
\* entities never reads the list, which is then given in one order.
CooccurFile ==
    /\ pc = "pass2"
    /\ fpos <= Len(file_texts)
    /\ LET text == file_texts[fpos].text
       IN  /\ file_id' = file_texts[fpos].id
           /\ entities' \in ListsOf(SeqSet(find_entities(text)))
           /\ topics' \in IF find_entities(text) = <<>>
                          THEN {find_topics(text)}
                          ELSE ListsOf(SeqSet(find_topics(text)))
           /\ IF NextOuter(1, Len(entities')) # 0
              THEN /\ pc' = "ee"
                   /\ i' = NextOuter(1, Len(entities'))
                   /\ j' = PairStart(NextOuter(1, Len(entities')))
                   /\ fpos' = fpos
              ELSE /\ pc' = AfterPairs(entities', topics')
                   /\ i' = 1
                   /\ j' = 1
                   /\ fpos' = IF AfterPairs(entities', topics') = "pass2"
                              THEN fpos + 1 ELSE fpos
    /\ UNCHANGED <<fs, walked, nodes, edges, entity_global_counts,
                   topic_global_counts, file_texts, entity_counts, topic_counts,
                   graph, gv_lines, summary>>

\* lines 143-152: one iteration of the inner entity-entity loop
AddEntityEntityEdge ==
    /\ pc = "ee"
    /\ edges' = Append(edges, RelatedEdge("ENTITY_RELATED_TO_ENTITY",
                                          EntityId(entities[i]),
                                          EntityId(entities[j]), file_id))
    /\ IF j < Len(entities)
       THEN i' = i /\ j' = j + 1 /\ pc' = pc /\ fpos' = fpos
       ELSE IF NextOuter(i + 1, Len(entities)) # 0
       THEN /\ i' = NextOuter(i + 1, Len(entities))
            /\ j' = PairStart(NextOuter(i + 1, Len(entities)))
            /\ pc' = pc
            /\ fpos' = fpos
       ELSE /\ i' = 1
            /\ j' = 1
            /\ pc' = AfterPairs(entities, topics)
            /\ fpos' = IF AfterPairs(entities, topics) = "pass2"
                       THEN fpos + 1 ELSE fpos
    /\ UNCHANGED <<fs, walked, nodes, entity_global_counts, topic_global_counts,
                   file_texts, file_id, entity_counts, topic_counts, entities,
                   topics, graph, gv_lines, summary>>

\* lines 155-164: one iteration of the inner entity-topic loop
AddEntityTopicEdge ==
    /\ pc = "et"
    /\ edges' = Append(edges, RelatedEdge("ENTITY_RELATED_TO_TOPIC",
                                          EntityId(entities[i]),
                                          TopicId(topics[j]), file_id))
    /\ IF j < Len(topics)
       THEN i' = i /\ j' = j + 1 /\ pc' = pc /\ fpos' = fpos
       ELSE IF i < Len(entities)
       THEN i' = i + 1 /\ j' = 1 /\ pc' = pc /\ fpos' = fpos
       ELSE i' = 1 /\ j' = 1 /\ pc' = "pass2" /\ fpos' = fpos + 1
    /\ UNCHANGED <<fs, walked, nodes, entity_global_counts, topic_global_counts,
                   file_texts, file_id, entity_counts, topic_counts, entities,
                   topics, graph, gv_lines, summary>>

(***************************************************************************)
(* The three exports (lines 166-215)                                       *)
(***************************************************************************)
TopListed == 20

GvNode(n, shape) == [id |-> n.id, label |-> n.name, shape |-> shape]

GvNodes(ns, shape) == [k \in 1..Len(ns) |-> GvNode(ns[k], shape)]

GvEdge(e) == [from |-> e.from, to |-> e.to, label |-> e.type]

Export ==
    /\ pc = "pass2"
    /\ fpos > Len(file_texts)
    /\ graph' = [nodes |-> nodes,
                 edges |-> edges,
                 stats |-> [num_files |-> Len(nodes.file),
                            num_entities |-> Len(nodes.entity),
                            num_topics |-> Len(nodes.topic)]]
    /\ gv_lines' = [nodes |-> GvNodes(nodes.file, "box")
                              \o GvNodes(nodes.entity, "ellipse")
                              \o GvNodes(nodes.topic, "diamond"),
                    edges |-> [k \in 1..Len(edges) |-> GvEdge(edges[k])]]
    /\ summary' = [files |-> Len(nodes.file),
                   entities |-> Len(nodes.entity),
                   topics |-> Len(nodes.topic),
                   top_entities |-> most_common(entity_global_counts, TopListed),
                   top_topics |-> most_common(topic_global_counts, TopListed)]
    /\ pc' = "done"
    /\ UNCHANGED <<fs, walked, nodes, edges, entity_global_counts,
                   topic_global_counts, file_texts, file_id, entity_counts,
                   topic_counts, entities, topics, fpos, i, j>>

Next ==
    \/ \E p \in DOMAIN fs : SkipFile(p)
    \/ \E p \in DOMAIN fs : RegisterFile(p)
    \/ AddEntityEdge
    \/ AddTopicEdge
    \/ StartPass2
    \/ CooccurFile
    \/ AddEntityEntityEdge
    \/ AddEntityTopicEdge
    \/ Export

Spec == Init /\ [][Next]_vars

(***************************************************************************)
(* Vocabulary of the properties                                            *)
(***************************************************************************)
NodeIds(d) == {d[k].id : k \in 1..Len(d)}

IsContainment(e) == e.type \in {"FILE_CONTAINS_ENTITY", "FILE_CONTAINS_TOPIC"}
IsCooccurrence(e) == e.type \in {"ENTITY_RELATED_TO_ENTITY", "ENTITY_RELATED_TO_TOPIC"}

\* number of occurrences of x in the sequence s
Occ(s, x) == Cardinality({k \in 1..Len(s) : s[k] = x})

\* the positions of the registered files
Registered == 1..Len(file_texts)

\* the directory walk is over: the script is in pass 2 or after it
AfterWalk == pc \in {"pass2", "ee", "et", "done"}

\* the edges of one type that leave the file
EdgesFrom(type, fid) ==
    {k \in 1..Len(edges) : edges[k].type = type /\ edges[k].from = fid}

\* the edges of one type that are tagged with the file
EdgesTagged(type, fid) ==
    {k \in 1..Len(edges) : edges[k].type = type /\ edges[k].file = fid}

\* every token of the text is whitespace: the text is empty or whitespace only
AllSpace(text) == \A k \in 1..Len(text) : IsSpace(text[k])

(***************************************************************************)
(* C1: in every state of the run, both endpoints of every edge are ids of  *)
(* nodes already in the node collection of the matching type, and the file *)
(* tag of every co-occurrence edge is the id of a registered file node.    *)
(***************************************************************************)
C1_EndpointsExist ==
    \A k \in 1..Len(edges) :
        LET e == edges[k]
        IN  CASE e.type = "FILE_CONTAINS_ENTITY" ->
                   e.from \in NodeIds(nodes.file) /\ e.to \in NodeIds(nodes.entity)
              [] e.type = "FILE_CONTAINS_TOPIC" ->
                   e.from \in NodeIds(nodes.file) /\ e.to \in NodeIds(nodes.topic)
              [] e.type = "ENTITY_RELATED_TO_ENTITY" ->
                   /\ e.from \in NodeIds(nodes.entity)
                   /\ e.to \in NodeIds(nodes.entity)
                   /\ e.file \in NodeIds(nodes.file)
              [] e.type = "ENTITY_RELATED_TO_TOPIC" ->
                   /\ e.from \in NodeIds(nodes.entity)
                   /\ e.to \in NodeIds(nodes.topic)
                   /\ e.file \in NodeIds(nodes.file)

\* the run is over with edges of all four types in the list
C1_Witness ==
    /\ pc = "done"
    /\ \A type \in {"FILE_CONTAINS_ENTITY", "FILE_CONTAINS_TOPIC",
                    "ENTITY_RELATED_TO_ENTITY", "ENTITY_RELATED_TO_TOPIC"} :
           \E k \in 1..Len(edges) : edges[k].type = type

(***************************************************************************)
(* C2: when the same entity name is extracted from two different           *)
(* registered files, after the walk exactly one entity node has that name  *)
(* and both files have a FILE_CONTAINS_ENTITY edge to the id of that node; *)
(* the same for a topic word extracted from two files.                     *)
(***************************************************************************)
NamedNodes(d, name) == {k \in 1..Len(d) : d[k].name = name}

SharedNode(d, type, name, a, b) ==
    /\ Cardinality(NamedNodes(d, name)) = 1
    /\ \A n \in NamedNodes(d, name) :
           /\ \E k \in EdgesFrom(type, file_texts[a].id) : edges[k].to = d[n].id
           /\ \E k \in EdgesFrom(type, file_texts[b].id) : edges[k].to = d[n].id

C2_OneNodePerName ==
    AfterWalk =>
        \A E \in {[a \in Registered |-> SeqSet(find_entities(file_texts[a].text))]} :
        \A T \in {[a \in Registered |-> SeqSet(find_topics(file_texts[a].text))]} :
            \A a, b \in Registered :
                a # b =>
                  /\ \A e \in E[a] \cap E[b] :
                         SharedNode(nodes.entity, "FILE_CONTAINS_ENTITY", e, a, b)
                  /\ \A t \in T[a] \cap T[b] :
                         SharedNode(nodes.topic, "FILE_CONTAINS_TOPIC", t, a, b)

\* b.txt was walked before a.txt and both hold the entity Acme Corp, and two
\* files hold the same topic
C2_Witness ==
    /\ pc = "done"
    /\ Len(file_texts) >= 2
    /\ file_texts[1].id[2].f.stem = "b"
    /\ file_texts[2].id = FileId(PathA)
    /\ <<"Acme", "Corp">> \in SeqSet(find_entities(file_texts[1].text))
                               \cap SeqSet(find_entities(file_texts[2].text))
    /\ \E a, b \in Registered :
           /\ a # b
           /\ SeqSet(find_topics(file_texts[a].text))
                \cap SeqSet(find_topics(file_texts[b].text)) # {}

(***************************************************************************)
(* C3 as stated: in every state, for each of the three node types, no two  *)
(* distinct nodes of the type have the same name, also when the walked     *)
(* files lie in different directories.                                     *)
(***************************************************************************)
UniqueNames(d) == \A a, b \in 1..Len(d) : a # b => d[a].name # d[b].name

C3_UniqueNamesAllTypes ==
    UniqueNames(nodes.file) /\ UniqueNames(nodes.entity) /\ UniqueNames(nodes.topic)

(***************************************************************************)
(* C3 amended: in every state no two distinct entity nodes and no two      *)
(* distinct topic nodes have the same name, and no two distinct file nodes *)
(* have the same path (two files of the same base name in different        *)
(* directories are two file nodes of the same name).                       *)
(***************************************************************************)
C3_UniqueNamesOrPaths ==
    /\ UniqueNames(nodes.entity)
    /\ UniqueNames(nodes.topic)
    /\ \A a, b \in 1..Len(nodes.file) :
           a # b => nodes.file[a].path # nodes.file[b].path

\* two file nodes of the same name, and an entity and a topic seen in two files
C3_Witness ==
    /\ pc = "done"
    /\ ~UniqueNames(nodes.file)
    /\ \E a, b \in Registered :
           /\ a # b
           /\ SeqSet(find_entities(file_texts[a].text))
                \cap SeqSet(find_entities(file_texts[b].text)) # {}
    /\ \E k \in 1..Len(topic_global_counts) : topic_global_counts[k].n >= 2

(***************************************************************************)
(* C4: after the walk, for every registered file and every distinct term   *)
(* of its extraction (the phrases find_entities returns, the words         *)
(* find_topics returns) the edge list holds exactly one containment edge   *)
(* from the file to the term, whose weight is the number of occurrences of *)
(* the term in the extraction; a term that is not extracted from the file  *)
(* has no containment edge from it.                                        *)
(***************************************************************************)
ContainmentOf(type, fid, extraction, idOf(_)) ==
    \A out \in {EdgesFrom(type, fid)} :
        /\ \A x \in SeqSet(extraction) :
               /\ Cardinality({k \in out : edges[k].to = idOf(x)}) = 1
               /\ \A k \in out :
                      edges[k].to = idOf(x) => edges[k].weight = Occ(extraction, x)
        /\ \A k \in out : edges[k].to[2] \in SeqSet(extraction)

CooccurrenceOf(fid, E, T) ==
    \A EE \in {EdgesTagged("ENTITY_RELATED_TO_ENTITY", fid)} :
    \A ET \in {EdgesTagged("ENTITY_RELATED_TO_TOPIC", fid)} :
        /\ 2 * Cardinality(EE) = Cardinality(E) * (Cardinality(E) - 1)
        /\ \A k \in EE :
               /\ edges[k].from # edges[k].to
               /\ {edges[k].from[2], edges[k].to[2]} \subseteq E
        /\ \A x, y \in E :
               x # y =>
                 Cardinality({k \in EE : {edges[k].from, edges[k].to}
                                           = {EntityId(x), EntityId(y)}}) = 1
        /\ Cardinality(ET) = Cardinality(E) * Cardinality(T)
        /\ \A x \in E : \A t \in T :
               Cardinality({k \in ET : /\ edges[k].from = EntityId(x)
                                       /\ edges[k].to = TopicId(t)}) = 1

C5_CooccurrencePairs ==
    \A a \in Registered :
        (AfterWalk /\ a < fpos) =>
            \A E \in {SeqSet(find_entities(file_texts[a].text))} :
            \A T \in {SeqSet(find_topics(file_texts[a].text))} :
                CooccurrenceOf(file_texts[a].id, E, T)

\* the run is over; one file has three distinct entities and three
\* entity-entity edges, one has a single distinct entity that occurs twice,
\* no entity-entity edge and an entity-topic edge
C5_Witness ==
    /\ pc = "done"
    /\ \E a \in Registered :
           /\ Cardinality(SeqSet(find_entities(file_texts[a].text))) = 3
           /\ Cardinality(EdgesTagged("ENTITY_RELATED_TO_ENTITY",
                                      file_texts[a].id)) = 3
    /\ \E a \in Registered :
           /\ Len(find_entities(file_texts[a].text)) = 2
           /\ Cardinality(SeqSet(find_entities(file_texts[a].text))) = 1
           /\ EdgesTagged("ENTITY_RELATED_TO_ENTITY", file_texts[a].id) = {}
           /\ EdgesTagged("ENTITY_RELATED_TO_TOPIC", file_texts[a].id) # {}

(***************************************************************************)
(* C6 as stated: a walked source file that yields empty text has a file    *)
(* node in the graph, and that node has no outgoing edge.                  *)
(***************************************************************************)
NoEdgeOf(fid) ==
    \A k \in 1..Len(edges) :
        IF IsContainment(edges[k]) THEN edges[k].from # fid ELSE edges[k].file # fid

C6_EmptyFileHasNode ==
    \A p \in walked :
        extract_text(p) = <<>> =>
            FileId(p) \in NodeIds(nodes.file) /\ NoEdgeOf(FileId(p))

(***************************************************************************)
(* C6 amended: a walked source file that yields empty text has no file     *)
(* node in the graph, and no edge leaves it or is tagged with it.          *)
(***************************************************************************)
C6_EmptyFileHasNoNode ==
    \A p \in walked :
        extract_text(p) = <<>> =>
            FileId(p) \notin NodeIds(nodes.file) /\ NoEdgeOf(FileId(p))

\* the run is over, it walked a readable zero-byte .txt file and registered
\* another file
C6_Witness ==
    /\ pc = "done"
    /\ nodes.file # <<>>
    /\ \E p \in walked :
           /\ ExtLower(p) = ".txt"
           /\ fs[p].readable
           /\ fs[p].content = <<>>

(***************************************************************************)
(* C7: the step that walks a file whose extraction is empty or whitespace  *)
(* only (unsupported extension, failed read, blank content) leaves the     *)
(* node collection, the edge list, both global counters and file_texts     *)
(* unchanged and the script at the top of the walk loop, so that the run   *)
(* goes on; and in every state the registered files are exactly the walked *)
(* files whose extraction is not blank.                                    *)
(***************************************************************************)
C7_BlankFileExcluded ==
    /\ [][\A p \in DOMAIN fs :
             (p \notin walked /\ p \in walked' /\ AllSpace(extract_text(p))) =>
                 /\ UNCHANGED <<nodes, edges, entity_global_counts,
                                topic_global_counts, file_texts>>
                 /\ pc' = "walk"]_vars
    /\ [](\A p \in DOMAIN fs :
             /\ FileId(p) \in NodeIds(nodes.file)
                  <=> (p \in walked /\ ~AllSpace(extract_text(p)))
             /\ FileId(p) \in NodeIds(file_texts)
                  <=> (p \in walked /\ ~AllSpace(extract_text(p))))

\* the run is over; it walked a file that holds text but yields none (an
\* unsupported extension or a failed read) and registered the file of the
\* subdirectory, which is walked after it
C7_Witness ==
    /\ pc = "done"
    /\ \E p \in walked :
           /\ ~AllSpace(fs[p].content)
           /\ AllSpace(extract_text(p))
    /\ FileId(PathSubA) \in NodeIds(nodes.file)

(***************************************************************************)
(* C8 as stated: after the walk the global counter of every entity name    *)
(* and of every topic name is the total number of occurrences of the name  *)
(* across the registered files, a name that occurs k times in a file       *)
(* counting k for the file, and these totals are the counts of graph.md.   *)
(***************************************************************************)
RECURSIVE TotalOcc(_, _, _)
TotalOcc(occurrences(_), x, a) ==
    IF a = 0 THEN 0
    ELSE Occ(occurrences(file_texts[a].text), x) + TotalOcc(occurrences, x, a - 1)

AllOccurring(occurrences(_)) ==
    UNION {SeqSet(occurrences(file_texts[a].text)) : a \in Registered}

C8_GlobalCountsAreOccurrences ==
    pc = "done" =>
        /\ \A e \in AllOccurring(find_entities) :
               /\ CounterGet(entity_global_counts, e)
                    = TotalOcc(find_entities, e, Len(file_texts))
               /\ \E k \in 1..Len(summary.top_entities) :
                      summary.top_entities[k]
                        = [k |-> e, n |-> TotalOcc(find_entities, e, Len(file_texts))]
        /\ \A t \in AllOccurring(find_topics) :
               /\ CounterGet(topic_global_counts, t)
                    = TotalOcc(TopicWords, t, Len(file_texts))
               /\ \E k \in 1..Len(summary.top_topics) :
                      summary.top_topics[k]
                        = [k |-> t, n |-> TotalOcc(TopicWords, t, Len(file_texts))]

(***************************************************************************)
(* C9: in every state every containment edge of the edge list precedes     *)
(* every co-occurrence edge, and a co-occurrence edge is in the list only  *)
(* when the walk has yielded every file and pass 1 is over.                *)
(***************************************************************************)
C9_ContainmentFirst ==
    /\ \A x, y \in 1..Len(edges) :
           (IsCooccurrence(edges[x]) /\ IsContainment(edges[y])) => y < x
    /\ (\E k \in 1..Len(edges) : IsCooccurrence(edges[k])) =>
           walked = DOMAIN fs /\ pc \in {"pass2", "ee", "et", "done"}
    /\ pc = "done" =>
           /\ graph.edges = edges
           /\ \A x, y \in 1..Len(gv_lines.edges) :
                  (/\ gv_lines.edges[x].label = "ENTITY_RELATED_TO_ENTITY"
                   /\ gv_lines.edges[y].label = "FILE_CONTAINS_TOPIC") => y < x

\* the run is over; two files have containment edges and co-occurrence edges
C9_Witness ==
    /\ pc = "done"
    /\ \E a, b \in Registered :
           /\ a # b
           /\ \A c \in {a, b} :
                  /\ EdgesFrom("FILE_CONTAINS_TOPIC", file_texts[c].id) # {}
                  /\ EdgesTagged("ENTITY_RELATED_TO_ENTITY", file_texts[c].id) # {}

(***************************************************************************)
(* C10: every FILE_CONTAINS_TOPIC edge has weight 1, however often the     *)
(* word occurs in the file; every registered file has at most top_n = 10   *)
(* FILE_CONTAINS_TOPIC edges; and after the walk the global count of a     *)
(* topic is the number of registered files whose find_topics list holds it.*)
(***************************************************************************)
C10_TopicWeightsAreOne ==
    /\ \A k \in 1..Len(edges) :
           edges[k].type = "FILE_CONTAINS_TOPIC" => edges[k].weight = 1
    /\ \A a \in Registered :
           Cardinality(EdgesFrom("FILE_CONTAINS_TOPIC", file_texts[a].id)) <= top_n
    /\ AfterWalk =>
           \A T \in {[a \in Registered |-> SeqSet(find_topics(file_texts[a].text))]} :
               \A t \in AllOccurring(TopicWords) :
                   CounterGet(topic_global_counts, t)
                     = Cardinality({a \in Registered : t \in T[a]})

\* the run is over; a file with more than top_n distinct topic words, one of
\* them twice, has top_n topic edges, and a topic is counted for two files
C10_Witness ==
    /\ pc = "done"
    /\ \E a \in Registered :
           /\ Cardinality(SeqSet(TopicWords(file_texts[a].text))) > top_n
           /\ \E w \in SeqSet(TopicWords(file_texts[a].text)) :
                  Occ(TopicWords(file_texts[a].text), w) = 2
           /\ Cardinality(EdgesFrom("FILE_CONTAINS_TOPIC", file_texts[a].id)) = top_n
    /\ \E k \in 1..Len(topic_global_counts) : topic_global_counts[k].n = 2

====
